---- MODULE Spec2Model ----
(***************************************************************************)
(* Model of generator.py: scrape rental listings (Airbnb / Booking) with a *)
(* headless browser, download up to MAX_IMAGES photos per listing into an  *)
(* image cache and render one PDF page per listing.                        *)
(*                                                                         *)
(* Strings that the code only passes around are TLA+ strings; strings the  *)
(* code transforms (text that is stripped, numbers that are formatted,     *)
(* URLs that are split) are sequences of pieces so that the transformation *)
(* is computed.  Lengths are in units of 1/300 mm (see pdf_w).             *)
(***************************************************************************)
EXTENDS Integers, Sequences, FiniteSets, TLC

VARIABLES
    urls,        \* main: the stripped, non-blank lines of the links file
    pc,          \* main: position in the code
    driver,      \* "none" | "live" | "quit": the Selenium session
    quits,       \* number of driver.quit() calls
    idx,         \* main: loop counter of enumerate(urls, 1)
    html,        \* page source returned by fetch_page
    info,        \* dict returned by the extractor for the current URL
    i,           \* main: loop counter of enumerate(info["images"], 1)
    dl_imgs,     \* main: paths of the current listing downloaded so far
    listings,    \* main: accumulated records
    cache,       \* files present in IMG_DIR
    calls,       \* history: the download_image calls made
    pdf          \* the document: pages added and number of output() calls

vars == <<urls, pc, driver, quits, idx, html, info, i, dl_imgs, listings,
          cache, calls, pdf>>

----------------------------------------------------------------------------
(* Configuration and bounds *)

MAX_IMAGES == 3

MaxUrls == 2          \* longest links file explored
MaxListingIdx == 10   \* largest listing_idx given to download_image alone
MaxAcquisitions == 2  \* download_image calls explored when it runs alone

IMG_DIR == "images"
OUTPUT_PDF == "listings.pdf"
SENTINEL == <<"--">>   \* the em dash the code writes for a missing field

NoInfo == [images |-> <<>>]

----------------------------------------------------------------------------
(* Text helpers: str.strip(), str(int), str.lower(), substring test *)

RECURSIVE LStrip(_)
LStrip(s) == IF s # <<>> /\ Head(s) = " " THEN LStrip(Tail(s)) ELSE s

RECURSIVE RStrip(_)
RStrip(s) ==
    IF s # <<>> /\ s[Len(s)] = " " THEN RStrip(SubSeq(s, 1, Len(s) - 1)) ELSE s

\* Tag.get_text(strip=True) of a node holding one text child
get_text(node) == RStrip(LStrip(node.text))

Digit(d) == <<"0", "1", "2", "3", "4", "5", "6", "7", "8", "9">>[d + 1]

\* the decimal digits an f-string writes for a non-negative int
RECURSIVE Str(_)
Str(n) == IF n < 10 THEN <<Digit(n)>> ELSE Str(n \div 10) \o <<Digit(n % 10)>>

LowerPiece(p) ==
    CASE p = "WWW." -> "www."
      [] p = "AIRBNB.COM" -> "airbnb.com"
      [] p = "BOOKING.COM" -> "booking.com"
      [] OTHER -> p

lower(s) == [k \in 1..Len(s) |-> LowerPiece(s[k])]

\* needle in haystack, for a needle that is one piece
Contains(haystack, needle) == \E k \in 1..Len(haystack) : haystack[k] = needle

\* urlparse(url).netloc: the pieces between "scheme://" and the path;
\* empty when the URL has no "//"
netloc(url) ==
    IF url # <<>> /\ Head(url) = "https://"
    THEN LET rest == Tail(url)
             stop == IF \E k \in 1..Len(rest) : rest[k] = "/"
                     THEN CHOOSE k \in 1..Len(rest) :
                              /\ rest[k] = "/"
                              /\ \A j \in 1..(k - 1) : rest[j] # "/"
                     ELSE Len(rest) + 1
         IN SubSeq(rest, 1, stop - 1)
    ELSE <<>>

----------------------------------------------------------------------------
(* Markup.  A page is what each selector of the two extractors matches in  *)
(* it, in document order: a sequence of tags.  A tag is a function from    *)
(* its attribute names to their values (plus "text" for its text child).   *)

NoAttrs == [a \in {} |-> ""]

\* soup.select_one(selector): the first match, or nothing
select_one(matches) == IF matches = <<>> THEN <<>> ELSE <<Head(matches)>>

\* tag.get(a) is truthy: the attribute is there and is not ""
Truthy(tag, a) == a \in DOMAIN tag /\ tag[a] # ""

Min(a, b) == IF a <= b THEN a ELSE b

TruncateNone(imgs) == imgs

\* imgs[:MAX_IMAGES]
Truncate(imgs) == SubSeq(imgs, 1, Min(MAX_IMAGES, Len(imgs)))

\* text of the first match, or the sentinel when nothing matches
TextOr(matches) ==
    IF select_one(matches) # <<>> THEN get_text(select_one(matches)[1])
    ELSE SENTINEL

RECURSIVE AirbnbImgs(_)
AirbnbImgs(metas) ==
    IF metas = <<>> THEN <<>>
    ELSE (IF Truthy(Head(metas), "content") THEN <<Head(metas)["content"]>>
          ELSE <<>>) \o AirbnbImgs(Tail(metas))

parse_airbnb(page) ==
    LET loc == select_one(page.loc_meta)
    IN [images   |-> Truncate(AirbnbImgs(page.og_image)),
        location |-> IF loc # <<>> /\ "content" \in DOMAIN loc[1]
                        /\ loc[1]["content"] # <<>>
                     THEN loc[1]["content"]
                     ELSE TextOr(page.h1),
        address  |-> TextOr(page.subtitle),
        price    |-> TextOr(page.price),
        rating   |-> TextOr(page.rating)]

RECURSIVE BookingImgs(_)
BookingImgs(tags) ==
    IF tags = <<>> THEN <<>>
    ELSE LET img == Head(tags)
             src == IF Truthy(img, "data-highres") THEN img["data-highres"]
                    ELSE IF "src" \in DOMAIN img THEN img["src"] ELSE ""
         IN (IF src # "" THEN <<src>> ELSE <<>>) \o BookingImgs(Tail(tags))

parse_booking(page) ==
    LET location == TextOr(page.hp_address_subtitle)
    IN [images   |-> Truncate(BookingImgs(page.thumbs)),
        location |-> location,
        address  |-> location,
        price    |-> TextOr(page.price_display),
        rating   |-> TextOr(page.review_badge)]

\* the pages the browser may return
BarePage ==
    [og_image |-> <<>>, loc_meta |-> <<>>, h1 |-> <<>>, subtitle |-> <<>>,
     price |-> <<>>, rating |-> <<>>, thumbs |-> <<>>,
     hp_address_subtitle |-> <<>>, price_display |-> <<>>,
     review_badge |-> <<>>]

AirbnbFullPage ==
    [BarePage EXCEPT
        !.og_image = <<[content |-> "a1.jpg"], NoAttrs, [content |-> "a2.png"],
                       [content |-> ""], [content |-> "a3.jpg"],
                       [content |-> "a4.jpg"], [content |-> "a5.jpg"]>>,
        !.loc_meta = <<[content |-> <<"P", "a", "r", "i", "s">>]>>,
        !.h1       = <<[text |-> <<"L", "o", "f", "t">>]>>,
        !.subtitle = <<[text |-> <<" ", "F", "l", "a", "t", " ">>]>>,
        !.price    = <<[text |-> <<"9", "0">>], [text |-> <<"1">>]>>,
        !.rating   = <<[text |-> <<"4", ".", "8">>]>>]

AirbnbSparsePage ==
    [BarePage EXCEPT
        !.og_image = <<[content |-> "c1.jpg"], [content |-> "c2.jpg"]>>,
        !.loc_meta = <<[content |-> <<>>]>>,
        !.h1       = <<[text |-> <<"H", "u", "t">>]>>,
        !.price    = <<[text |-> <<" ">>]>>,
        !.rating   = <<[text |-> <<>>]>>]

BookingPage ==
    [BarePage EXCEPT
        !.thumbs = <<("data-highres" :> "b1.jpg") @@ ("src" :> "t1.jpg"),
                     ("src" :> "b2.jpg"),
                     NoAttrs,
                     ("data-highres" :> "") @@ ("src" :> "b3.jpg"),
                     ("data-highres" :> "b4.jpg")>>,
        !.hp_address_subtitle = <<[text |-> <<" ", "R", "o", "m", "e">>]>>,
        !.price_display = <<[text |-> <<"7", "5">>]>>]

Pages == {BarePage, AirbnbFullPage, AirbnbSparsePage, BookingPage}

\* the lines a links file may hold
Urls ==
    { <<"https://", "www.", "airbnb.com", "/", "rooms/1">>,
      <<"https://", "WWW.", "BOOKING.COM", "/", "hotel/x">>,
      <<"https://", "airbnb.com", ".", "booking.com", "/">>,
      <<"https://", "example.org", "/", "airbnb.com">>,
      <<"airbnb.com", "/", "rooms/2">> }

RECURSIVE SeqsUpTo(_, _)
SeqsUpTo(S, n) ==
    IF n = 0 THEN {<<>>}
    ELSE LET shorter == SeqsUpTo(S, n - 1)
         IN shorter \cup {Append(s, x) : s \in shorter, x \in S}

----------------------------------------------------------------------------
(* Site adapter dispatch, main lines 150-157 *)

domain(url) == lower(netloc(url))

ResolveFallThrough(d) ==
    IF Contains(d, "airbnb.com") THEN "airbnb" ELSE "booking"

Resolve(d) ==
    IF Contains(d, "airbnb.com") THEN "airbnb"
    ELSE IF Contains(d, "booking.com") THEN "booking"
    ELSE "unsupported"

----------------------------------------------------------------------------
(* download_image *)

None == <<>>

Outcomes == {"ok", "network_error", "bad_status", "undecodable", "save_error"}

ImagePathNoListing(dest_folder, idx_, listing_idx) ==
    <<dest_folder, "/", "listing">> \o <<"_img">> \o Str(idx_) \o <<".jpg">>

\* os.path.join(dest_folder, f"listing{listing_idx}_img{idx}.jpg")
ImagePath(dest_folder, idx_, listing_idx) ==
    <<dest_folder, "/", "listing">> \o Str(listing_idx) \o <<"_img">>
        \o Str(idx_) \o <<".jpg">>

\* the value download_image returns
download_image(url, dest_folder, idx_, listing_idx, outcome) ==
    IF outcome = "ok" THEN ImagePath(dest_folder, idx_, listing_idx) ELSE None

\* the files in dest_folder after the call: img.save has written the path
\* when the call succeeds.  When encoding fails Pillow removes the file if
\* it created it and leaves an older file of that name in place, so the set
\* of names is as before.
FilesAfter(files, dest_folder, idx_, listing_idx, outcome) ==
    IF outcome = "ok"
    THEN files \cup {ImagePath(dest_folder, idx_, listing_idx)}
    ELSE files

\* history entry of one call: its arguments and what it returned
CallRecord(url, idx_, listing_idx, outcome) ==
    [url |-> url, idx |-> idx_, listing_idx |-> listing_idx,
     result |-> download_image(url, IMG_DIR, idx_, listing_idx, outcome)]

----------------------------------------------------------------------------
(* make_pdf *)

Mm == 300                \* length units per millimetre
pdf_w == 63000           \* FPDF(format="A4").w: 210 mm
l_margin == 3000         \* FPDF default left margin: 10 mm

ImgWByCount(n) ==
    IF n = 0 THEN pdf_w - 2 * l_margin
    ELSE (pdf_w - 2 * l_margin - 5 * Mm * (n - 1)) \div n

\* img_w = (pdf.w - 2*pdf.l_margin - 10) / MAX_IMAGES; n images are drawn
ImgW(n) == (pdf_w - 2 * l_margin - 10 * Mm) \div MAX_IMAGES

\* img_h = img_w * 0.75
ImgH(w) == (w * 3) \div 4

\* the for loop over l["downloaded_images"], starting with the cursor at x
RECURSIVE ImageRow(_, _, _)
ImageRow(paths, x, w) ==
    IF paths = <<>> THEN <<>>
    ELSE IF Head(paths) = None THEN ImageRow(Tail(paths), x, w)
    ELSE <<[path |-> Head(paths), x |-> x, w |-> w, h |-> ImgH(w)]>>
            \o ImageRow(Tail(paths), x + w + 5 * Mm, w)

TitleNumberFromZero(n, l) == n - 1

\* enumerate(listings, 1)
TitleNumber(n, l) == n

Page(n, l) ==
    [title  |-> <<"Listing", " ">> \o Str(TitleNumber(n, l)),
     lines  |-> <<l.location, l.address, l.price, l.rating>>,
     images |-> ImageRow(l.downloaded_images, l_margin,
                         ImgW(Len(l.downloaded_images)))]

NoPdf == [pages |-> <<>>, outputs |-> 0, composed |-> 0, file |-> ""]

\* make_pdf(listings): one page per record, then one pdf.output
make_pdf(records) ==
    [pages    |-> [n \in 1..Len(records) |-> Page(n, records[n])],
     outputs  |-> 1,
     composed |-> 1,
     file     |-> OUTPUT_PDF]

----------------------------------------------------------------------------
(* main *)

Init ==
    /\ urls \in SeqsUpTo(Urls, MaxUrls)
    /\ pc = "init_webdriver"
    /\ driver = "none"
    /\ quits = 0
    /\ idx = 0
    /\ html = BarePage
    /\ info = NoInfo
    /\ i = 0
    /\ dl_imgs = <<>>
    /\ listings = <<>>
    /\ cache = {}
    /\ calls = {}
    /\ pdf = NoPdf

\* line 145: webdriver.Chrome(...) returns a session
InitWebdriver ==
    /\ pc = "init_webdriver"
    /\ driver' = "live"
    /\ pc' = "for_url"
    /\ UNCHANGED <<urls, quits, idx, html, info, i, dl_imgs, listings, cache,
                   calls, pdf>>

\* line 145: webdriver.Chrome(...) raises; the exception leaves main
InitWebdriverRaises ==
    /\ pc = "init_webdriver"
    /\ pc' = "raised"
    /\ UNCHANGED <<urls, driver, quits, idx, html, info, i, dl_imgs, listings,
                   cache, calls, pdf>>

\* lines 147-149: the next URL is taken and its page is fetched
FetchPage(page) ==
    /\ pc = "for_url"
    /\ idx < Len(urls)
    /\ idx' = idx + 1
    /\ html' = page
    /\ pc' = "dispatch"
    /\ UNCHANGED <<urls, driver, quits, info, i, dl_imgs, listings, cache,
                   calls, pdf>>

\* lines 147-149: driver.get raises (bad URL, DNS failure, timeout, dead
\* session); nothing in main catches it
FetchPageRaises ==
    /\ pc = "for_url"
    /\ idx < Len(urls)
    /\ idx' = idx + 1
    /\ pc' = "raised"
    /\ UNCHANGED <<urls, driver, quits, html, info, i, dl_imgs, listings,
                   cache, calls, pdf>>

\* lines 150-152
ParseAirbnb ==
    /\ pc = "dispatch"
    /\ Resolve(domain(urls[idx])) = "airbnb"
    /\ info' = parse_airbnb(html)
    /\ i' = 0
    /\ dl_imgs' = <<>>
    /\ pc' = "for_img"
    /\ UNCHANGED <<urls, driver, quits, idx, html, listings, cache, calls, pdf>>

\* lines 153-154
ParseBooking ==
    /\ pc = "dispatch"
    /\ Resolve(domain(urls[idx])) = "booking"
    /\ info' = parse_booking(html)
    /\ i' = 0
    /\ dl_imgs' = <<>>
    /\ pc' = "for_img"
    /\ UNCHANGED <<urls, driver, quits, idx, html, listings, cache, calls, pdf>>

\* lines 155-157: print and continue
Unsupported ==
    /\ pc = "dispatch"
    /\ Resolve(domain(urls[idx])) = "unsupported"
    /\ pc' = "for_url"
    /\ UNCHANGED <<urls, driver, quits, idx, html, info, i, dl_imgs, listings,
                   cache, calls, pdf>>

CollectFront(dl, path) == IF path # None THEN <<path>> \o dl ELSE dl

\* lines 163-164: if path: dl_imgs.append(path)
Collect(dl, path) == IF path # None THEN Append(dl, path) ELSE dl

\* lines 161-164: one turn of the image loop
DownloadImage(outcome) ==
    /\ pc = "for_img"
    /\ i < Len(info.images)
    /\ i' = i + 1
    /\ dl_imgs' = Collect(dl_imgs,
                          download_image(info.images[i'], IMG_DIR, i', idx,
                                         outcome))
    /\ cache' = FilesAfter(cache, IMG_DIR, i', idx, outcome)
    /\ calls' = calls \cup {CallRecord(info.images[i'], i', idx, outcome)}
    /\ UNCHANGED <<urls, pc, driver, quits, idx, html, info, listings, pdf>>

\* lines 165-166: the image loop is over
AppendListing ==
    /\ pc = "for_img"
    /\ i = Len(info.images)
    /\ listings' = Append(listings,
                          [images |-> info.images, location |-> info.location,
                           address |-> info.address, price |-> info.price,
                           rating |-> info.rating,
                           downloaded_images |-> dl_imgs])
    /\ pc' = "for_url"
    /\ UNCHANGED <<urls, driver, quits, idx, html, info, i, dl_imgs, cache,
                   calls, pdf>>

\* line 168: the URL loop is over
Quit ==
    /\ pc = "for_url"
    /\ idx = Len(urls)
    /\ driver' = "quit"
    /\ quits' = quits + 1
    /\ pc' = "make_pdf"
    /\ UNCHANGED <<urls, idx, html, info, i, dl_imgs, listings, cache, calls,
                   pdf>>

\* line 169
MakePdf ==
    /\ pc = "make_pdf"
    /\ pdf' = make_pdf(listings)
    /\ pc' = "done"
    /\ UNCHANGED <<urls, driver, quits, idx, html, info, i, dl_imgs, listings,
                   cache, calls>>

Next ==
    \/ InitWebdriver
    \/ InitWebdriverRaises
    \/ \E page \in Pages : FetchPage(page)
    \/ FetchPageRaises
    \/ ParseAirbnb
    \/ ParseBooking
    \/ Unsupported
    \/ \E outcome \in Outcomes : DownloadImage(outcome)
    \/ AppendListing
    \/ Quit
    \/ MakePdf

Spec == Init /\ [][Next]_vars

----------------------------------------------------------------------------
(* download_image on its own: any sequence of calls, against a cache that  *)
(* outlives the runs that filled it.                                       *)

ImageUrls == {"a1.jpg", "b1.jpg"}

InitAcquire ==
    /\ urls = <<>>
    /\ pc = "acquire"
    /\ driver = "none"
    /\ quits = 0
    /\ idx = 0
    /\ html = BarePage
    /\ info = NoInfo
    /\ i = 0
    /\ dl_imgs = <<>>
    /\ listings = <<>>
    /\ cache = {}
    /\ calls = {}
    /\ pdf = NoPdf

Acquire(url, idx_, listing_idx, outcome) ==
    /\ pc = "acquire"
    /\ Cardinality(calls) < MaxAcquisitions
    /\ cache' = FilesAfter(cache, IMG_DIR, idx_, listing_idx, outcome)
    /\ calls' = calls \cup {CallRecord(url, idx_, listing_idx, outcome)}
    /\ UNCHANGED <<urls, pc, driver, quits, idx, html, info, i, dl_imgs, listings,
                   pdf>>

NextAcquire ==
    \E url \in ImageUrls, idx_ \in 1..MAX_IMAGES, listing_idx \in 1..MaxListingIdx,
       outcome \in Outcomes :
        Acquire(url, idx_, listing_idx, outcome)

SpecAcquire == InitAcquire /\ [][NextAcquire]_vars

----------------------------------------------------------------------------
(* Vocabulary of the properties *)

\* the host of the URL contains one of the two supported site names
SupportedHosts ==
    {u \in Urls : Contains(domain(u), "airbnb.com")
                     \/ Contains(domain(u), "booking.com")}

SupportedHost(url) == url \in SupportedHosts

SupportedUpTo(k) == {j \in 1..Min(k, Len(urls)) : SupportedHost(urls[j])}

\* position in the links file of the URL behind the n-th record
SourceIdx(n) ==
    CHOOSE k \in SupportedUpTo(Len(urls)) : Cardinality(SupportedUpTo(k)) = n

\* main has returned or an exception has left it
RunEnded == pc \in {"done", "raised"}

\* where URL number k stands in the per-URL state machine
UrlStatus(k) ==
    IF k > idx THEN "Pending"
    ELSE IF k < idx \/ pc \in {"for_url", "make_pdf", "done"}
         THEN (IF SupportedHost(urls[k]) THEN "Appended" ELSE "Skipped")
    ELSE IF pc = "dispatch" THEN "Fetched"
    ELSE IF pc = "for_img" THEN "Extracted"
    ELSE "Failed"

TextFields == {"location", "address", "price", "rating"}

DigitValue(c) == CHOOSE d \in 0..9 : Digit(d) = c

RECURSIVE ParseInt(_)
ParseInt(s) ==
    IF s = <<>> THEN 0
    ELSE 10 * ParseInt(SubSeq(s, 1, Len(s) - 1)) + DigitValue(s[Len(s)])

\* the number between "listing" and "_img" in a cache file name
FileListingIdx(path) ==
    LET at == CHOOSE k \in 1..Len(path) : path[k] = "_img"
    IN ParseInt(SubSeq(path, 4, at - 1))

\* the number in a page title "Listing N"
TitleIdx(title) == ParseInt(SubSeq(title, 3, Len(title)))

\* the calls made for listing index l, and the image positions that succeeded
CallsOf(l) == {c \in calls : c.listing_idx = l}
OkIdx(l) == {c.idx : c \in {d \in CallsOf(l) : d.result # None}}

\* the k-th smallest element of a set of numbers
Nth(S, k) == CHOOSE x \in S : Cardinality({y \in S : y <= x}) = k

\* what the successful calls for listing index l returned, by image position
Successes(l) ==
    [k \in 1..Cardinality(OkIdx(l)) |->
        (CHOOSE c \in CallsOf(l) : c.idx = Nth(OkIdx(l), k) /\ c.result # None).result]

----------------------------------------------------------------------------
(* C1: every accumulated record, and the record being built, has           *)
(* len(downloaded_images) <= len(images) <= MAX_IMAGES, also when the page  *)
(* offers more than MAX_IMAGES image URLs.                                  *)
C1_ImagesBounded ==
    /\ \A n \in 1..Len(listings) :
          /\ Len(listings[n].downloaded_images) <= Len(listings[n].images)
          /\ Len(listings[n].images) <= MAX_IMAGES
    /\ pc = "for_img" =>
          /\ Len(dl_imgs) <= i
          /\ i <= Len(info.images)
          /\ Len(info.images) <= MAX_IMAGES

\* a record cut down from a page that offers five image URLs, all downloaded
C1_Witness ==
    /\ Len(AirbnbImgs(AirbnbFullPage.og_image)) > MAX_IMAGES
    /\ \E n \in 1..Len(listings) :
          /\ listings[n].images = <<"a1.jpg", "a2.png", "a3.jpg">>
          /\ Len(listings[n].downloaded_images) = MAX_IMAGES

C3_EveryUrlTerminal ==
    /\ pc = "raised" => driver = "none"
    /\ (RunEnded /\ driver # "none") =>
          \A k \in 1..Len(urls) : UrlStatus(k) \in {"Appended", "Skipped"}

(* C4: when the session was initialized it is released exactly once, after  *)
(* the last URL and before the composer, however many URLs were skipped or  *)
(* failed; when initialization failed no release is attempted.              *)
C4_ReleasedExactlyOnce ==
    /\ quits <= 1
    /\ driver = "none" => quits = 0
    /\ quits = 1 => idx = Len(urls)
    /\ pdf.composed = 1 => quits = 1
    /\ (RunEnded /\ driver # "none") => quits = 1

(* C5: downloaded_images of a record is exactly what the successful         *)
(* downloads of its image URLs returned, in the order of the URLs: failures *)
(* leave no placeholder, do not stop the later attempts and do not reorder. *)
C5_SuccessesInOrder ==
    /\ \A n \in 1..Len(listings) :
          /\ {c.idx : c \in CallsOf(SourceIdx(n))} = 1..Len(listings[n].images)
          /\ \A c \in CallsOf(SourceIdx(n)) : c.url = listings[n].images[c.idx]
          /\ listings[n].downloaded_images = Successes(SourceIdx(n))
    /\ pc = "for_img" =>
          /\ {c.idx : c \in CallsOf(idx)} = 1..i
          /\ dl_imgs = Successes(idx)

\* a record of three image URLs whose second download failed
C5_Witness ==
    \E n \in 1..Len(listings) :
        /\ Len(listings[n].images) = 3
        /\ OkIdx(SourceIdx(n)) = {1, 3}
        /\ Len(listings[n].downloaded_images) = 2

(* C6: each of the four text fields of a record is present and is never the *)
(* empty string: an absent or empty node falls through to the sentinel.     *)
C6_FieldsNeverEmpty ==
    /\ \A n \in 1..Len(listings) :
          \A f \in TextFields :
              f \in DOMAIN listings[n] /\ listings[n][f] # <<>>
    /\ pc = "for_img" =>
          \A f \in TextFields : f \in DOMAIN info /\ info[f] # <<>>

(* C7: in every run past session initialization make_pdf runs once and the  *)
(* document is written once, after every URL is done, also with no records; *)
(* it has one page per record, page n for the n-th supported URL.           *)
C7_ComposedOnce ==
    /\ pdf.composed <= 1
    /\ pdf.outputs <= 1
    /\ pdf.composed = 1 =>
          /\ idx = Len(urls)
          /\ Len(pdf.pages) = Len(listings)
          /\ Len(listings) = Cardinality(SupportedUpTo(Len(urls)))
          /\ \A n \in 1..Len(pdf.pages) :
                pdf.pages[n].lines = <<listings[n].location, listings[n].address,
                                       listings[n].price, listings[n].rating>>
    /\ (RunEnded /\ driver # "none") => (pdf.composed = 1 /\ pdf.outputs = 1)

(* C8: the cache path is an injective function of (listing_idx, idx) alone: *)
(* calls with different pairs write different files, calls with the same    *)
(* pair write the same file whatever the URL, so the cache holds at most    *)
(* one file per pair.                                                       *)
C8_PathInjective ==
    /\ \A c, d \in {e \in calls : e.result # None} :
          (c.result = d.result) <=>
              (c.listing_idx = d.listing_idx /\ c.idx = d.idx)
    /\ cache = {c.result : c \in {e \in calls : e.result # None}}
    /\ Cardinality(cache) <=
          Cardinality({<<c.listing_idx, c.idx>> : c \in calls})

\* the same pair acquired twice from different URLs, and one file
C8_Witness ==
    /\ Cardinality(cache) = 1
    /\ \E c, d \in calls :
          /\ c.url # d.url
          /\ c.result # None /\ d.result # None
          /\ c.listing_idx = d.listing_idx /\ c.idx = d.idx
          /\ c.listing_idx >= 10

\* the width the layout rule gives every image
C9_Width == (pdf_w - 2 * l_margin - 5 * Mm * (MAX_IMAGES - 1)) \div MAX_IMAGES

(* C9: every image on every page has the width                              *)
(* (pageWidth - 2*margin - gap*(cap-1)) / cap with gap 5 mm, cap MAX_IMAGES; *)
(* the k-th is at margin + k*(width + gap); the row ends at or before       *)
(* pageWidth - margin, exactly there when the row is full.                  *)
C9_UniformWidth ==
    \A n \in 1..Len(pdf.pages) :
        LET row == pdf.pages[n].images
        IN /\ Len(row) <= MAX_IMAGES
           /\ \A k \in 1..Len(row) :
                 /\ row[k].w = C9_Width
                 /\ row[k].x = l_margin + (k - 1) * (C9_Width + 5 * Mm)
                 /\ row[k].x + row[k].w <= pdf_w - l_margin
           /\ Len(row) > 0 =>
                 ((row[Len(row)].x + row[Len(row)].w = pdf_w - l_margin)
                     <=> (Len(row) = MAX_IMAGES))

\* a document with a full row on one page and a single image on another
C9_Witness ==
    \E n, m \in 1..Len(pdf.pages) :
        /\ Len(pdf.pages[n].images) = MAX_IMAGES
        /\ Len(pdf.pages[m].images) = 1

(* C10: the listing number in a record's cache file names is the position   *)
(* of its URL in the links file, the number in its page title is its        *)
(* position among the records; so the first is >= the second, and equal     *)
(* exactly when no earlier URL was skipped as unsupported.                  *)
C10_FileIdxVsTitleIdx ==
    /\ \A n \in 1..Len(listings) :
          \A k \in 1..Len(listings[n].downloaded_images) :
              LET file == FileListingIdx(listings[n].downloaded_images[k])
              IN /\ file = SourceIdx(n)
                 /\ file >= n
                 /\ (file = n) <=>
                        (\A j \in 1..(SourceIdx(n) - 1) : SupportedHost(urls[j]))
    /\ \A n \in 1..Len(pdf.pages) :
          /\ TitleIdx(pdf.pages[n].title) = n
          /\ \A k \in 1..Len(pdf.pages[n].images) :
                FileListingIdx(pdf.pages[n].images[k].path) >= n

\* a page titled "Listing 1" whose image files are named listing2_...
C10_Witness ==
    /\ Len(pdf.pages) >= 1
    /\ TitleIdx(pdf.pages[1].title) = 1
    /\ Len(pdf.pages[1].images) >= 1
    /\ FileListingIdx(pdf.pages[1].images[1].path) = 2

====
